---- MODULE Spec2Model ----
(***************************************************************************)
(* Dashboard FDEPM (src/app.py): the Streamlit script as a state machine.  *)
(*                                                                         *)
(* One press of "Consultar" runs the script body: the expenditure tab      *)
(* (buscar_despesas, memoized by st.cache_data, then its rendering) and    *)
(* the revenue tab (credential checks, buscar_receitas with its paginated  *)
(* loop, memoized by st.cache_data, then its rendering).  The upstream     *)
(* services (the orcamentobr provider, the Portal da Transparencia API)    *)
(* are the environment: every answer they can give is a nondeterministic   *)
(* choice.  The grouped chart series (groupby / sum / sort_values) is      *)
(* checked as a function under its own specification, SpecAgg.             *)
(***************************************************************************)
EXTENDS Integers, Sequences, FiniteSets, TLC

VARIABLES
    pc,                   \* position of the script: idle, tab_desp, tab_rec, rec_loop
    botao,                \* st.sidebar.button("Consultar") of the current script run
    runs,                 \* presses of "Consultar" so far (bounded by MaxRuns)
    ano_selecionado,      \* the year widget
    api_key_input,        \* the key widget, a sequence of characters
    cache_desp,           \* st.cache_data of buscar_despesas: arguments -> entry
    cache_rec,            \* st.cache_data of buscar_receitas: arguments -> entry
    df_desp,              \* <<>> while unbound, <<DataFrame>> once assigned
    df_rec,               \* <<>> while unbound, <<DataFrame>> once assigned
    tab_desp,             \* elements shown in the expenditure tab, in order
    tab_rec,              \* elements shown in the revenue tab, in order
    pagina,               \* buscar_receitas: page counter
    dados_receita_total,  \* buscar_receitas: accumulator
    exc,                  \* exception that left buscar_receitas, or "none"
    req_log,              \* HTTP requests issued in this script run
    resp_log,             \* the answers they got
    provider_log,         \* outcomes of the despesa_detalhada calls of this run
    hist_desp,            \* calls of buscar_despesas that returned: inputs -> result
    hist_rec,             \* calls of buscar_receitas that returned: inputs -> result
    agg_pc,               \* SpecAgg: inicio, agrupado, ordenado
    agg_df,               \* SpecAgg: the dataset's rows
    agg_data              \* SpecAgg: acao_data / gnd_data / rec_data

appVars == <<pc, botao, runs, ano_selecionado, api_key_input, cache_desp, cache_rec,
             df_desp, df_rec, tab_desp, tab_rec, pagina, dados_receita_total, exc,
             req_log, resp_log, provider_log, hist_desp, hist_rec>>
aggVars == <<agg_pc, agg_df, agg_data>>
vars == <<appVars, aggVars>>

(***************************************************************************)
(* Bounds of the model.                                                    *)
(***************************************************************************)
\* Horizon of the pagination: the model follows the loop up to this many pages.
MaxPagina == 3
\* Presses of "Consultar" in one process lifetime.
MaxRuns == 2
\* Rows of a dataset handed to the aggregation.
MaxRows == 3

\* A subset of the year widget's range 2010..2025; 2024 is its initial value.
Anos == {2024, 2025}
AnoInicial == 2024
UO_FDEPM_COD == "52133"

\* Characters str.strip() removes.
Whitespace == {" ", "\t"}
\* What the user may type in the key field.
KeyInputs == {<<>>, <<"\t", " ">>, <<"k">>, <<" ", "k", " ">>, <<"j">>}

(***************************************************************************)
(* Helpers: Python values.                                                 *)
(***************************************************************************)
Last(s) == s[Len(s)]
Front(s) == SubSeq(s, 1, Len(s) - 1)

RECURSIVE lstrip(_)
lstrip(s) == IF s # <<>> /\ Head(s) \in Whitespace THEN lstrip(Tail(s)) ELSE s
RECURSIVE rstrip(_)
rstrip(s) == IF s # <<>> /\ Last(s) \in Whitespace THEN rstrip(Front(s)) ELSE s

\* api_key_input.strip() without the cleaning: the key as typed.
strip_NoOp(s) == s
\* api_key_input.strip()
strip(s) == rstrip(lstrip(s))

\* pd.DataFrame(list): one row per item of the list, in the list's order.
DataFrame(lista) == [rows |-> lista, nrows |-> Len(lista)]
\* df.empty
empty(df) == df.nrows = 0

(***************************************************************************)
(* The environment: what the two upstream services may answer.             *)
(***************************************************************************)
\* Lengths of the bodies the revenue API serves as one page.
TamanhosPagina == {0, 2}

\* The items of page p when it holds n of them.
Registros(p, n) == [i \in 1..n |-> [pagina |-> p, i |-> i]]

\* Answers to a GET of page p. kind is what requests/JSON make of the answer:
\*   lista          2xx, body a JSON array, or a JSON object (iterating a
\*                  dict yields its keys); body: the items iteration yields
\*   falsy          2xx, body null, 0 or ""
\*   escalar        2xx, body a non-zero number or true
\*   json_invalido  2xx, body not JSON
\*   http_erro      4xx/5xx: raise_for_status() raises HTTPError
\*   rede_erro      requests.get raises ConnectionError, Timeout, ...
Respostas(p) ==
    {[kind |-> "lista", body |-> Registros(p, n)] : n \in TamanhosPagina}
    \cup {[kind |-> k, body |-> <<>>] :
            k \in {"falsy", "escalar", "json_invalido", "http_erro", "rede_erro"}}

\* `not dados_pagina` is False: a non-empty list or dict, a non-zero number.
Truthy(resp) ==
    \/ resp.kind = "lista" /\ resp.body # <<>>
    \/ resp.kind = "escalar"

\* Outcomes of despesa_detalhada(...): a DataFrame (possibly without rows) or
\* an exception.
ProviderOutcomes ==
    {[ok |-> TRUE, rows |-> <<>>],
     [ok |-> TRUE, rows |-> Registros(0, 2)],
     [ok |-> FALSE, rows |-> <<>>]}

(***************************************************************************)
(* st.cache_data: the arguments are the key; an entry keeps the returned   *)
(* value and the st.* elements the body emitted, replayed on a hit.  A     *)
(* call that raises stores nothing.                                        *)
(***************************************************************************)
ChaveCacheDespesas(ano, uo_cod) == <<ano, uo_cod>>

\* A cache keyed without the year.
ChaveCacheReceitas_SemAno(ano, orgao_cod, api_key) == <<orgao_cod, api_key>>
ChaveCacheReceitas(ano, orgao_cod, api_key) == <<ano, orgao_cod, api_key>>

Entry(df, elementos) == [value |-> df, msgs |-> elementos]

(***************************************************************************)
(* buscar_despesas and the expenditure tab.                                *)
(***************************************************************************)
\* The calls of despesa_detalhada one execution of the body makes.
ChamadasProvider(outcome) == <<outcome>>

\* The body of buscar_despesas for one provider outcome: what it returns and
\* what it shows.
BuscarDespesasCorpo(outcome) ==
    IF outcome.ok
    THEN Entry(DataFrame(outcome.rows), <<"write">>)
    ELSE Entry(DataFrame(<<>>), <<"write", "exception">>)

PainelDespesas ==
    <<"subheader", "metric", "metric", "metric", "divider", "markdown",
      "bar_chart", "markdown", "bar_chart", "dataframe">>

\* The panel built whatever the dataset holds.
TabDespesas_SemTeste(df) == PainelDespesas
\* `if not df_desp.empty: ... else: st.warning(...)`
TabDespesas(df) == IF ~empty(df) THEN PainelDespesas ELSE <<"warning_sem_despesa">>

(***************************************************************************)
(* buscar_receitas and the revenue tab.                                    *)
(***************************************************************************)
\* The page replaces what was accumulated.
Extend_Replace(total, dados_pagina) == dados_pagina
\* dados_receita_total.extend(dados_pagina)
Extend(total, dados_pagina) == total \o dados_pagina

\* The next page skipped.
ProximaPagina_Salta(p) == p + 2
\* pagina += 1
ProximaPagina(p) == p + 1

\* The pages received so far returned on a failure.
RetornoErro_Parcial(total) == DataFrame(total)
\* `return pd.DataFrame()` of the except branch
RetornoErro(total) == DataFrame(<<>>)

PainelReceitas ==
    <<"subheader", "metric", "metric", "divider", "markdown", "bar_chart", "dataframe">>

\* `if not df_rec.empty: ... else: st.warning(...)`
TabReceitas(df) == IF ~empty(df) THEN PainelReceitas ELSE <<"warning_sem_receita">>

\* The request of the current page: query parameters and the key header.
Requisicao(ano, orgao_cod, api_key, p) ==
    [anoExercicio |-> ano, codigoOrgao |-> orgao_cod, pagina |-> p, chave |-> api_key]

api_key_tratada == strip(api_key_input)

(***************************************************************************)
(* Initial state: the script has run once without the button; the widgets  *)
(* hold their defaults and both caches are empty.                          *)
(***************************************************************************)
AggIdle ==
    /\ agg_pc = "inicio"
    /\ agg_df = <<>>
    /\ agg_data = <<>>

InitApp ==
    /\ pc = "idle"
    /\ botao = FALSE
    /\ runs = 0
    /\ ano_selecionado = AnoInicial
    /\ api_key_input = <<>>
    /\ cache_desp = <<>>
    /\ cache_rec = <<>>
    /\ df_desp = <<>>
    /\ df_rec = <<>>
    /\ tab_desp = <<>>
    /\ tab_rec = <<>>
    /\ pagina = 0
    /\ dados_receita_total = <<>>
    /\ exc = "none"
    /\ req_log = <<>>
    /\ resp_log = <<>>
    /\ provider_log = <<>>
    /\ hist_desp = <<>>
    /\ hist_rec = <<>>

Init == InitApp /\ AggIdle

\* A script run starts from a blank page: no tab content, no script variable.
NovaExecucao ==
    /\ df_desp' = <<>>
    /\ df_rec' = <<>>
    /\ tab_desp' = <<>>
    /\ tab_rec' = <<>>
    /\ pagina' = 0
    /\ dados_receita_total' = <<>>
    /\ exc' = "none"
    /\ req_log' = <<>>
    /\ resp_log' = <<>>
    /\ provider_log' = <<>>

\* The user edits a sidebar widget: the script reruns with the button False
\* and takes the final else branch (st.info).
AlterarFiltros(ano, key) ==
    /\ pc = "idle"
    /\ <<ano, key>> # <<ano_selecionado, api_key_input>>
    /\ ano_selecionado' = ano
    /\ api_key_input' = key
    /\ botao' = FALSE
    /\ NovaExecucao
    /\ UNCHANGED <<pc, runs, cache_desp, cache_rec, hist_desp, hist_rec, aggVars>>

\* The user presses "Consultar": the script reruns with the button True.
Consultar ==
    /\ pc = "idle"
    /\ runs < MaxRuns
    /\ runs' = runs + 1
    /\ botao' = TRUE
    /\ pc' = "tab_desp"
    /\ NovaExecucao
    /\ UNCHANGED <<ano_selecionado, api_key_input, cache_desp, cache_rec,
                   hist_desp, hist_rec, aggVars>>

\* with tab_desp: buscar_despesas(ano_selecionado, UO_FDEPM_COD) answered by
\* the cache, then the tab's rendering.
DespesasCacheHit ==
    /\ pc = "tab_desp"
    /\ ChaveCacheDespesas(ano_selecionado, UO_FDEPM_COD) \in DOMAIN cache_desp
    /\ LET e == cache_desp[ChaveCacheDespesas(ano_selecionado, UO_FDEPM_COD)]
       IN /\ df_desp' = <<e.value>>
          /\ tab_desp' = e.msgs \o TabDespesas(e.value)
    /\ pc' = "tab_rec"
    /\ UNCHANGED <<botao, runs, ano_selecionado, api_key_input, cache_desp, cache_rec,
                   df_rec, tab_rec, pagina, dados_receita_total, exc, req_log,
                   resp_log, provider_log, hist_desp, hist_rec, aggVars>>

\* with tab_desp: buscar_despesas runs its body, the result is stored in the
\* cache, then the tab's rendering.
DespesasFetch(outcome) ==
    /\ pc = "tab_desp"
    /\ ChaveCacheDespesas(ano_selecionado, UO_FDEPM_COD) \notin DOMAIN cache_desp
    /\ LET e == BuscarDespesasCorpo(outcome)
       IN /\ provider_log' = provider_log \o ChamadasProvider(outcome)
          /\ cache_desp' =
                (ChaveCacheDespesas(ano_selecionado, UO_FDEPM_COD) :> e) @@ cache_desp
          /\ hist_desp' =
                (<<ano_selecionado, UO_FDEPM_COD>> :>
                    [value |-> e.value, falhou |-> ~outcome.ok]) @@ hist_desp
          /\ df_desp' = <<e.value>>
          /\ tab_desp' = e.msgs \o TabDespesas(e.value)
    /\ pc' = "tab_rec"
    /\ UNCHANGED <<botao, runs, ano_selecionado, api_key_input, cache_rec,
                   df_rec, tab_rec, pagina, dados_receita_total, exc, req_log,
                   resp_log, hist_rec, aggVars>>

\* with tab_rec: `if not api_key_input`
ReceitasSemChave ==
    /\ pc = "tab_rec"
    /\ api_key_input = <<>>
    /\ tab_rec' = <<"warning_chave_ausente">>
    /\ pc' = "idle"
    /\ UNCHANGED <<botao, runs, ano_selecionado, api_key_input, cache_desp, cache_rec,
                   df_desp, df_rec, tab_desp, pagina, dados_receita_total, exc,
                   req_log, resp_log, provider_log, hist_desp, hist_rec, aggVars>>

\* with tab_rec: `if not api_key_tratada`
ReceitasChaveVazia ==
    /\ pc = "tab_rec"
    /\ api_key_input # <<>>
    /\ api_key_tratada = <<>>
    /\ tab_rec' = <<"warning_chave_vazia">>
    /\ pc' = "idle"
    /\ UNCHANGED <<botao, runs, ano_selecionado, api_key_input, cache_desp, cache_rec,
                   df_desp, df_rec, tab_desp, pagina, dados_receita_total, exc,
                   req_log, resp_log, provider_log, hist_desp, hist_rec, aggVars>>

ChaveUtilizavel == api_key_input # <<>> /\ api_key_tratada # <<>>

\* with tab_rec: buscar_receitas(...) answered by the cache, then the tab's
\* rendering.
ReceitasCacheHit ==
    /\ pc = "tab_rec"
    /\ ChaveUtilizavel
    /\ ChaveCacheReceitas(ano_selecionado, UO_FDEPM_COD, api_key_tratada)
            \in DOMAIN cache_rec
    /\ LET e == cache_rec[ChaveCacheReceitas(ano_selecionado, UO_FDEPM_COD,
                                             api_key_tratada)]
       IN /\ df_rec' = <<e.value>>
          /\ tab_rec' = <<"info">> \o e.msgs \o TabReceitas(e.value)
    /\ pc' = "idle"
    /\ UNCHANGED <<botao, runs, ano_selecionado, api_key_input, cache_desp, cache_rec,
                   df_desp, tab_desp, pagina, dados_receita_total, exc, req_log,
                   resp_log, provider_log, hist_desp, hist_rec, aggVars>>

\* with tab_rec: buscar_receitas starts its body: st.write, pagina = 1,
\* dados_receita_total = [].
ReceitasInicio ==
    /\ pc = "tab_rec"
    /\ ChaveUtilizavel
    /\ ChaveCacheReceitas(ano_selecionado, UO_FDEPM_COD, api_key_tratada)
            \notin DOMAIN cache_rec
    /\ tab_rec' = <<"info", "write">>
    /\ pagina' = 1
    /\ dados_receita_total' = <<>>
    /\ pc' = "rec_loop"
    /\ UNCHANGED <<botao, runs, ano_selecionado, api_key_input, cache_desp, cache_rec,
                   df_desp, df_rec, tab_desp, exc, req_log, resp_log, provider_log,
                   hist_desp, hist_rec, aggVars>>

\* One GET of the loop: the request goes out and resp comes back.
Pedido(resp) ==
    /\ pc = "rec_loop"
    /\ pagina <= MaxPagina
    /\ req_log' = Append(req_log,
            Requisicao(ano_selecionado, UO_FDEPM_COD, api_key_tratada, pagina))
    /\ resp_log' = Append(resp_log, resp)

\* buscar_receitas returns df: st.cache_data stores it with the elements the
\* body showed (all of tab_rec but the caller's st.info), and the caller
\* renders the tab.
Retorno(df, elementos, falhou) ==
    /\ cache_rec' =
          (ChaveCacheReceitas(ano_selecionado, UO_FDEPM_COD, api_key_tratada)
              :> Entry(df, Tail(elementos))) @@ cache_rec
    /\ df_rec' = <<df>>
    /\ tab_rec' = elementos \o TabReceitas(df)
    /\ hist_rec' =
          (<<ano_selecionado, UO_FDEPM_COD, api_key_tratada>> :>
              [value |-> df, falhou |-> falhou,
               tab |-> elementos \o TabReceitas(df)]) @@ hist_rec
    /\ pc' = "idle"

\* except requests.exceptions.RequestException: st.error, st.exception,
\* return pd.DataFrame().  capturada: whether the installed requests raises
\* its own JSONDecodeError (a RequestException, since 2.27) for a body that
\* is not JSON.
PaginaErro(resp, capturada) ==
    /\ Pedido(resp)
    /\ \/ resp.kind \in {"http_erro", "rede_erro"}
       \/ resp.kind = "json_invalido" /\ capturada
    /\ Retorno(RetornoErro(dados_receita_total),
               tab_rec \o <<"error", "exception">>, TRUE)
    /\ UNCHANGED <<botao, runs, ano_selecionado, api_key_input, cache_desp,
                   df_desp, tab_desp, pagina, dados_receita_total, exc,
                   provider_log, hist_desp, aggVars>>

\* An exception the except clause does not name leaves buscar_receitas: the
\* ValueError of response.json() under an older requests, or the TypeError
\* of list.extend(number).  Nothing is cached and the script run ends there.
PaginaExcecao(resp, capturada) ==
    /\ Pedido(resp)
    /\ \/ resp.kind = "json_invalido" /\ ~capturada
       \/ resp.kind = "escalar"
    /\ exc' = IF resp.kind = "escalar" THEN "TypeError" ELSE "ValueError"
    /\ tab_rec' = tab_rec \o <<"uncaught_exception">>
    /\ pc' = "idle"
    /\ UNCHANGED <<botao, runs, ano_selecionado, api_key_input, cache_desp, cache_rec,
                   df_desp, df_rec, tab_desp, pagina, dados_receita_total,
                   provider_log, hist_desp, hist_rec, aggVars>>

\* `if not dados_pagina: break`, then `return pd.DataFrame(dados_receita_total)`
PaginaVazia(resp) ==
    /\ Pedido(resp)
    /\ resp.kind \in {"lista", "falsy"}
    /\ ~Truthy(resp)
    /\ Retorno(DataFrame(dados_receita_total), tab_rec, FALSE)
    /\ UNCHANGED <<botao, runs, ano_selecionado, api_key_input, cache_desp,
                   df_desp, tab_desp, pagina, dados_receita_total, exc,
                   provider_log, hist_desp, aggVars>>

\* dados_receita_total.extend(dados_pagina); pagina += 1
PaginaCheia(resp) ==
    /\ Pedido(resp)
    /\ resp.kind = "lista"
    /\ Truthy(resp)
    /\ dados_receita_total' = Extend(dados_receita_total, resp.body)
    /\ pagina' = ProximaPagina(pagina)
    /\ UNCHANGED <<pc, botao, runs, ano_selecionado, api_key_input, cache_desp,
                   cache_rec, df_desp, df_rec, tab_desp, tab_rec, exc,
                   provider_log, hist_desp, hist_rec, aggVars>>

Next ==
    \/ \E ano \in Anos, key \in KeyInputs : AlterarFiltros(ano, key)
    \/ Consultar
    \/ DespesasCacheHit
    \/ \E outcome \in ProviderOutcomes : DespesasFetch(outcome)
    \/ ReceitasSemChave
    \/ ReceitasChaveVazia
    \/ ReceitasCacheHit
    \/ ReceitasInicio
    \/ \E resp \in Respostas(pagina), capturada \in BOOLEAN : PaginaErro(resp, capturada)
    \/ \E resp \in Respostas(pagina), capturada \in BOOLEAN : PaginaExcecao(resp, capturada)
    \/ \E resp \in Respostas(pagina) : PaginaVazia(resp)
    \/ \E resp \in Respostas(pagina) : PaginaCheia(resp)

Spec == Init /\ [][Next]_vars

(***************************************************************************)
(* The grouped chart series:                                               *)
(*     data = df.groupby(label)[col].sum().reset_index()                   *)
(*     data = data.sort_values(col, ascending=False)                       *)
(* as it is applied to df_desp (Acao_desc, GND_desc / empenhado) and to    *)
(* df_rec (descricaoPrimaria / valorRealizado).  A row is its label and    *)
(* its amount; amounts are integers here, so that sums are exact.          *)
(***************************************************************************)
Labels == {"A", "B", "C"}
\* The order pandas sorts the labels in (strings compare lexicographically).
Ordem == ("A" :> 1) @@ ("B" :> 2) @@ ("C" :> 3)
Valores == {50, 100, 150, 300}
Linhas == [label : Labels, valor : Valores]

\* The datasets the tabs aggregate: they are not empty (`if not df.empty`).
Datasets == UNION {[1..n -> Linhas] : n \in 1..MaxRows}

RECURSIVE SomaGrupo(_, _)
\* .sum() of one group: the amounts of the rows labelled l, added up.
SomaGrupo(df, l) ==
    IF df = <<>> THEN 0
    ELSE (IF Head(df).label = l THEN Head(df).valor ELSE 0) + SomaGrupo(Tail(df), l)

RECURSIVE OrdenarLabels(_)
\* groupby's sort=True default: the group keys in ascending order.
OrdenarLabels(S) ==
    IF S = {} THEN <<>>
    ELSE LET m == CHOOSE x \in S : \A y \in S : Ordem[x] <= Ordem[y]
         IN <<m>> \o OrdenarLabels(S \ {m})

\* df.groupby(label)[col].sum().reset_index()
GroupBySum(df) ==
    LET ls == OrdenarLabels({df[i].label : i \in DOMAIN df})
    IN [i \in 1..Len(ls) |-> [label |-> ls[i], valor |-> SomaGrupo(df, ls[i])]]

Rearranjos(data) ==
    LET n == Len(data)
        bij == {f \in [1..n -> 1..n] : \A i, j \in 1..n : f[i] = f[j] => i = j}
    IN {[i \in 1..n |-> data[f[i]]] : f \in bij}

\* The sort without ascending=False.
SortValues_Ascending(data) ==
    {s \in Rearranjos(data) : \A i, j \in DOMAIN s : i < j => s[i].valor <= s[j].valor}
\* data.sort_values(col, ascending=False): kind defaults to quicksort, which
\* is not stable, so rows with equal amounts may come out in any order.
SortValues(data) ==
    {s \in Rearranjos(data) : \A i, j \in DOMAIN s : i < j => s[i].valor >= s[j].valor}

InitAgg ==
    /\ InitApp
    /\ agg_pc = "inicio"
    /\ agg_df \in Datasets
    /\ agg_data = <<>>

Agrupar ==
    /\ agg_pc = "inicio"
    /\ agg_data' = GroupBySum(agg_df)
    /\ agg_pc' = "agrupado"
    /\ UNCHANGED <<agg_df, appVars>>

Ordenar ==
    /\ agg_pc = "agrupado"
    /\ agg_data' \in SortValues(agg_data)
    /\ agg_pc' = "ordenado"
    /\ UNCHANGED <<agg_df, appVars>>

NextAgg == Agrupar \/ Ordenar

SpecAgg == InitAgg /\ [][NextAgg]_vars

(***************************************************************************)
(* Properties.                                                             *)
(***************************************************************************)
Blank(s) == \A i \in DOMAIN s : s[i] \in Whitespace
PaginaNaoVazia(resp) == resp.kind = "lista" /\ resp.body # <<>>
FalhaHttpOuRede(resp) == resp.kind \in {"http_erro", "rede_erro"}

RECURSIVE Concatenacao(_)
\* P1 ++ ... ++ Pn of the bodies of a sequence of answers.
Concatenacao(resps) ==
    IF resps = <<>> THEN <<>> ELSE Head(resps).body \o Concatenacao(Tail(resps))

\* C1: when a page request ends in a non-success HTTP status or a network
\* failure, buscar_receitas stops at that page (the script is back at rest,
\* every request has its answer, none follows) and returns an empty dataset:
\* no record of the pages received before the failure is in the result.
C1_FalhaDescartaParcial ==
    (resp_log # <<>> /\ FalhaHttpOuRede(Last(resp_log))) =>
        /\ pc = "idle"
        /\ Len(req_log) = Len(resp_log)
        /\ exc = "none"
        /\ df_rec = <<DataFrame(<<>>)>>
        /\ \A i \in DOMAIN resp_log : \A j \in DOMAIN resp_log[i].body :
              \A r \in DOMAIN df_rec[1].rows : df_rec[1].rows[r] # resp_log[i].body[j]

C1_Witness ==
    /\ Len(resp_log) = 3
    /\ PaginaNaoVazia(resp_log[1])
    /\ PaginaNaoVazia(resp_log[2])
    /\ resp_log[3].kind = "http_erro"
    /\ df_rec = <<DataFrame(<<>>)>>

\* C2: when every request succeeds and the upstream serves non-empty pages
\* P1..Pn and then an empty page, the fetch ends without error and returns
\* exactly P1 ++ ... ++ Pn, in page order (the empty dataset when n = 0).
C2_ConcatenacaoEmOrdem ==
    ( /\ resp_log # <<>>
      /\ \A i \in DOMAIN resp_log : resp_log[i].kind = "lista"
      /\ \A i \in 1..(Len(resp_log) - 1) : resp_log[i].body # <<>>
      /\ Last(resp_log).body = <<>> ) =>
        /\ pc = "idle"
        /\ exc = "none"
        /\ df_rec = <<DataFrame(Concatenacao(resp_log))>>
        /\ \A i \in DOMAIN tab_rec : tab_rec[i] \notin {"error", "exception"}

C2_Witness ==
    /\ Len(resp_log) = 3
    /\ PaginaNaoVazia(resp_log[1])
    /\ PaginaNaoVazia(resp_log[2])
    /\ resp_log[3] = [kind |-> "lista", body |-> <<>>]
    /\ df_rec # <<>>
    /\ df_rec[1].nrows = 4

\* C3: the loop is bounded: once MaxPagina pages have all come back
\* successful and non-empty, buscar_receitas is no longer in its loop.
C3_LacoLimitado ==
    ( /\ Len(resp_log) >= MaxPagina
      /\ \A i \in DOMAIN resp_log : PaginaNaoVazia(resp_log[i]) ) => pc # "rec_loop"

\* C4: with an empty or whitespace-only key a press of "Consultar" ends in a
\* missing-credential state of the revenue tab, buscar_receitas is not
\* entered and no request is issued; every request that is issued carries a
\* non-blank key without leading or trailing whitespace, taken from the
\* key typed.
C4_SemChaveSemPedido ==
    /\ Blank(api_key_input) =>
          /\ req_log = <<>>
          /\ pc # "rec_loop"
          /\ df_rec = <<>>
          /\ (botao /\ pc = "idle") =>
                tab_rec \in {<<"warning_chave_ausente">>, <<"warning_chave_vazia">>}
    /\ \A i \in DOMAIN req_log :
          LET chave == req_log[i].chave
          IN /\ ~Blank(chave)
             /\ Head(chave) \notin Whitespace
             /\ Last(chave) \notin Whitespace
             /\ \E a \in 1..Len(api_key_input) :
                   chave = SubSeq(api_key_input, a, a + Len(chave) - 1)

C4_Witness ==
    /\ botao
    /\ pc = "idle"
    /\ api_key_input = <<"\t", " ">>
    /\ tab_rec = <<"warning_chave_vazia">>
    /\ tab_desp # <<>>

EntradaDesp == <<ano_selecionado, UO_FDEPM_COD>>
EntradaRec == <<ano_selecionado, UO_FDEPM_COD, api_key_tratada>>

\* C5: a call of a fetcher with the inputs of an earlier call that returned
\* (with data or after a fetch failure) returns that call's dataset and
\* issues no provider call or request; a call with inputs no earlier call
\* had runs its own fetch (buscar_despesas calls the provider, buscar_receitas
\* enters its loop, whose first step issues a request).
C5_Memoizacao ==
    [][ /\ (pc = "tab_desp" /\ EntradaDesp \in DOMAIN hist_desp) =>
              /\ df_desp' = <<hist_desp[EntradaDesp].value>>
              /\ provider_log' = provider_log
        /\ (pc = "tab_desp" /\ EntradaDesp \notin DOMAIN hist_desp) =>
              Len(provider_log') = Len(provider_log) + 1
        /\ (pc = "tab_rec" /\ ChaveUtilizavel /\ EntradaRec \in DOMAIN hist_rec) =>
              /\ df_rec' = <<hist_rec[EntradaRec].value>>
              /\ req_log' = req_log
              /\ pc' = "idle"
        /\ (pc = "tab_rec" /\ ChaveUtilizavel /\ EntradaRec \notin DOMAIN hist_rec) =>
              pc' = "rec_loop"
        /\ (pc = "rec_loop" /\ pagina = 1) => Len(req_log') = Len(req_log) + 1
      ]_vars

C5_Witness ==
    /\ pc = "idle"
    /\ botao
    /\ df_desp # <<>>
    /\ provider_log = <<>>
    /\ df_rec # <<>>
    /\ req_log = <<>>
    /\ EntradaRec \in DOMAIN hist_rec
    /\ hist_rec[EntradaRec].falhou
    /\ df_rec = <<hist_rec[EntradaRec].value>>

\* C6: a fetch that succeeded with zero records and a fetch that failed are
\* distinguishable at the call site: the values returned differ, and so do
\* the states the revenue tab ends in.
C6_VazioDistintoDeErro ==
    \A a, b \in DOMAIN hist_rec :
        (~hist_rec[a].falhou /\ empty(hist_rec[a].value) /\ hist_rec[b].falhou) =>
            /\ hist_rec[a].value # hist_rec[b].value
            /\ hist_rec[a].tab # hist_rec[b].tab

\* C7: no exception leaves buscar_receitas, whatever a page request is
\* answered with.
C7_NenhumaExcecaoEscapa == exc = "none"

\* C8: when the provider call fails, buscar_despesas has called the provider
\* once, shows the error, returns an empty dataset without raising (the
\* script goes on to the revenue tab), and the expenditure tab shows the
\* no-data warning and no metric or chart.
C8_FalhaProvider ==
    (\E i \in DOMAIN provider_log : ~provider_log[i].ok) =>
        /\ Len(provider_log) = 1
        /\ pc # "tab_desp"
        /\ df_desp = <<DataFrame(<<>>)>>
        /\ tab_desp = <<"write", "exception", "warning_sem_despesa">>

C8_Witness ==
    /\ pc = "tab_rec"
    /\ provider_log = <<[ok |-> FALSE, rows |-> <<>>]>>
    /\ df_desp = <<DataFrame(<<>>)>>

\* The index of the first row of df labelled l.
PrimeiraOcorrencia(df, l) ==
    CHOOSE i \in DOMAIN df : df[i].label = l /\ \A j \in 1..(i - 1) : df[j].label # l

\* C9 (amended): the grouped series has one entry per distinct label, its
\* value the sum of the column over the rows with that label, and is ordered
\* by summed value descending.
C9_SerieAgrupada ==
    agg_pc = "ordenado" =>
        /\ {agg_data[i].label : i \in DOMAIN agg_data}
              = {agg_df[i].label : i \in DOMAIN agg_df}
        /\ \A i, j \in DOMAIN agg_data :
              agg_data[i].label = agg_data[j].label => i = j
        /\ \A i \in DOMAIN agg_data :
              agg_data[i].valor = SomaGrupo(agg_df, agg_data[i].label)
        /\ \A i, j \in DOMAIN agg_data :
              i < j => agg_data[i].valor >= agg_data[j].valor

\* C9 (as stated): the same, and groups with equal sums keep the order in
\* which they were first encountered in the dataset.
C9_EmpatesPorPrimeiraOcorrencia ==
    /\ C9_SerieAgrupada
    /\ agg_pc = "ordenado" =>
          \A i, j \in DOMAIN agg_data :
              (i < j /\ agg_data[i].valor = agg_data[j].valor) =>
                  PrimeiraOcorrencia(agg_df, agg_data[i].label)
                      < PrimeiraOcorrencia(agg_df, agg_data[j].label)

C9_Witness ==
    /\ agg_pc = "ordenado"
    /\ agg_df = <<[label |-> "A", valor |-> 100], [label |-> "B", valor |-> 300],
                  [label |-> "A", valor |-> 50]>>
    /\ agg_data = <<[label |-> "B", valor |-> 300], [label |-> "A", valor |-> 150]>>

\* C10: within one invocation the pages requested are 1, 2, 3, ... without
\* gap or repetition, every request but the last was answered with a
\* successful non-empty page, and while the loop runs every answer so far
\* was one and the next page to request follows the last one requested.
C10_PaginasEmSequencia ==
    /\ Len(req_log) = Len(resp_log)
    /\ \A i \in DOMAIN req_log : req_log[i].pagina = i
    /\ \A i \in 1..(Len(resp_log) - 1) : PaginaNaoVazia(resp_log[i])
    /\ pc = "rec_loop" =>
          /\ \A i \in DOMAIN resp_log : PaginaNaoVazia(resp_log[i])
          /\ pagina = Len(req_log) + 1

C10_Witness ==
    /\ pc = "idle"
    /\ Len(req_log) = 3
    /\ req_log[3].pagina = 3
    /\ resp_log[3].kind = "rede_erro"

====
